---- MODULE Spec2Model ----
(***************************************************************************)
(* Dynamic Quote Generator (unnamed/part_000): the quote store, its mirror *)
(* in localStorage, the category filter, the renderer, JSON import, the    *)
(* periodic server sync with resolveConflicts, and postLocalQuotes.        *)
(*                                                                         *)
(* JavaScript runs every handler to completion; the only suspension points *)
(* are the awaited network calls and the FileReader load.  Each action     *)
(* below is one such run-to-completion segment.                            *)
(*                                                                         *)
(* Any number of FileReaders and of fetchServerQuotes runs may be pending  *)
(* at once (nothing in the code limits them).  A pending continuation has  *)
(* no state of its own, so the model keeps, per suspension point, whether  *)
(* at least one continuation waits there; the step that resumes one says   *)
(* whether others remain.                                                  *)
(***************************************************************************)
EXTENDS Integers, Sequences, FiniteSets, TLC

VARIABLES
    quotes,          \* the module-level array `quotes`
    lsQuotes,        \* localStorage item "quotes" (JSON text) or NoText
    lsLastSelected,  \* localStorage item "lastSelectedCategory" or NoItem
    ssLastViewed,    \* sessionStorage item "lastViewedQuote" (JSON text) or NoText
    display,         \* innerHTML of #quoteDisplay
    categoryFilter,  \* the element getElementById("categoryFilter") returns
    handlers,        \* event listeners and timers registered so far
    pc,              \* position of the top-level script (lines 273..280)
    reading,         \* some FileReader has not fired onload yet
    fetchWait,       \* some fetchServerQuotes run is suspended at `await fetch`
    jsonWait,        \* some run is suspended at `await response.json()`
    post,            \* postLocalQuotes: its state, iterator index and requests
    ev,              \* what the last step did: handler, argument, alert, flags
    mL, mS, calls    \* direct-call harness of resolveConflicts: inputs, calls made

vars == <<quotes, lsQuotes, lsLastSelected, ssLastViewed, display, categoryFilter,
          handlers, pc, reading, fetchWait, jsonWait, post, ev, mL, mS, calls>>

-----------------------------------------------------------------------------
(* Bounds of the model *)

MaxQuotes == 4      \* cap on Len(quotes) in the guards
MaxLocal == 2       \* harness: longest local sequence
MaxCand == 3        \* harness: longest candidate sequence
MaxCalls == 2       \* harness: calls of resolveConflicts with the same argument

(* data.slice(0, 5) *)
SliceEnd == 5

-----------------------------------------------------------------------------
(* Values *)

Quote(t, c) == [text |-> t, category |-> c]

DefaultQuotes ==
    << Quote("The best way to get started is to quit talking and begin doing.", "Motivation"),
       Quote("Don't let yesterday take up too much of today.", "Wisdom"),
       Quote("It's not whether you get knocked down, it's whether you get up.", "Inspiration") >>

SeqsUpTo(S, n) == UNION { [1..k -> S] : k \in 0..n }

IsPrefix(s, t) == Len(s) <= Len(t) /\ SubSeq(t, 1, Len(s)) = s

NoItem == "<null>"      \* getItem of a key that was never set

(* JSON texts.  A text lists the objects it holds, each as its members in  *)
(* property order; kind tells whether the top-level value is an array, a   *)
(* single object, text that does not parse, or no text at all (null).      *)
NoText == [kind |-> "null", elems |-> <<>>]
InvalidText == [kind |-> "invalid", elems |-> <<>>]
Members(q) == << <<"text", q.text>>, <<"category", q.category>> >>
ObjectText(q) == [kind |-> "object", elems |-> << Members(q) >>]

JSONstringify(q) == [kind |-> "array", elems |-> [i \in 1..Len(q) |-> Members(q[i])]]

Member(ms, key) == LET i == CHOOSE i \in DOMAIN ms : ms[i][1] = key IN ms[i][2]
ParseThrows(t) == t.kind = "invalid"

IsObjectOrArray(t) == t.kind \in {"array", "object"}

IsArray(t) == t.kind = "array"

JSONparse(t) ==
    [i \in 1..Len(t.elems) |-> Quote(Member(t.elems[i], "text"), Member(t.elems[i], "category"))]

(* innerHTML of #quoteDisplay *)
PageHtml == [html |-> "page", text |-> "", category |-> ""]
EmptyHtml == [html |-> "No quotes available for this category.", text |-> "", category |-> ""]
QuoteHtml(q) == [html |-> "quote", text |-> q.text, category |-> q.category]

(* String.prototype.trim on a typed value, given as a sequence of tokens *)
RECURSIVE TrimStart(_)
TrimStart(s) == IF s # <<>> /\ Head(s) = " " THEN TrimStart(Tail(s)) ELSE s
RECURSIVE TrimEnd(_)
TrimEnd(s) ==
    IF s # <<>> /\ s[Len(s)] = " " THEN TrimEnd(SubSeq(s, 1, Len(s) - 1)) ELSE s
Trim(s) == LET t == TrimEnd(TrimStart(s)) IN IF t = <<>> THEN "" ELSE t[1]

-----------------------------------------------------------------------------
(* The store *)

PushReplacing(q, items) == items

Push(q, items) == q \o items

SaveSkipped(q) == lsQuotes

saveQuotes(q) == JSONstringify(q)

LoadQuotes(item) == IF item = NoText THEN DefaultQuotes ELSE JSONparse(item)

-----------------------------------------------------------------------------
(* Category filter *)

NoElement == [exists |-> FALSE, options |-> <<>>, value |-> ""]
Select(opts, v) == [exists |-> TRUE, options |-> opts, value |-> v]

Range(s) == { s[i] : i \in DOMAIN s }

(* [...new Set(xs)] : distinct values in order of first occurrence *)
RECURSIVE SetOrder(_)
SetOrder(xs) ==
    IF xs = <<>> THEN <<>>
    ELSE LET init == SetOrder(SubSeq(xs, 1, Len(xs) - 1))
             last == xs[Len(xs)]
         IN IF last \in Range(init) THEN init ELSE Append(init, last)

Categories(q) == SetOrder([i \in 1..Len(q) |-> q[i].category])

LastSelected(item) == IF item = NoItem \/ item = "" THEN "all" ELSE item

populateCategories(sel, q, item) ==
    IF ~sel.exists THEN sel
    ELSE LET opts == <<"all">> \o Categories(q)
         IN Select(opts, IF LastSelected(item) \in Range(opts) THEN LastSelected(item) ELSE "")

FilterIgnored(q, sel) == q

getFilteredQuotes(q, sel) ==
    IF sel.value = "all" THEN q
    ELSE SelectSeq(q, LAMBDA r : r.category = sel.value)

-----------------------------------------------------------------------------
(* Sync merge *)

ExistsSameRecord(q, serverQuote) == \E i \in DOMAIN q : q[i] = serverQuote

ExistsByCategory(q, serverQuote) == \E i \in DOMAIN q : q[i].category = serverQuote.text

exists(q, serverQuote) == \E i \in DOMAIN q : q[i].text = serverQuote.text

RECURSIVE forEachServerQuote(_, _, _)
forEachServerQuote(q, serverQuotes, updated) ==
    IF serverQuotes = <<>> THEN [quotes |-> q, updated |-> updated]
    ELSE IF exists(q, Head(serverQuotes))
         THEN forEachServerQuote(q, Tail(serverQuotes), updated)
         ELSE forEachServerQuote(Push(q, <<Head(serverQuotes)>>), Tail(serverQuotes), TRUE)

Slice(data) == SubSeq(data, 1, IF Len(data) < SliceEnd THEN Len(data) ELSE SliceEnd)

ServerQuotes(data) == [i \in 1..Len(Slice(data)) |-> Quote(Slice(data)[i].title, "Server")]

-----------------------------------------------------------------------------
(* Inputs drawn by the environment *)

(* what the user types into #newQuoteText and #newQuoteCategory *)
TypedTexts == { <<" ">>, <<" ", "A", " ">> }
TypedCategories == { <<>>, <<"X">> }

(* files handed to the import input *)
ImportFiles ==
    { InvalidText,
      ObjectText(Quote("A", "X")),
      JSONstringify(<<>>),
      JSONstringify(<< Quote("B", "Wisdom") >>) }

(* bodies the server answers with; NotArrayBody has no slice method *)
Item(t) == [title |-> t]
Body(items) == [isArray |-> TRUE, items |-> items]
NotArrayBody == [isArray |-> FALSE, items |-> <<>>]
ServerBodies ==
    { NotArrayBody,
      Body(<<>>),
      Body(<< Item(DefaultQuotes[2].text) >>),
      Body(<< Item("B"), Item("A") >>),
      Body(<< Item("A"), Item("A"), Item("A"), Item("A"), Item("A"), Item("B") >>) }

(* what the page and the storage hold when the script starts.  The page is *)
(* not part of the script: it may or may not supply a select#categoryFilter *)
(* of its own (with no option yet, or with the "all" option).  The stored   *)
(* items are ones an earlier run of the script can have left.               *)
PageFilters == { NoElement, Select(<<>>, ""), Select(<<"all">>, "all") }
StoredQuotes == { NoText, JSONstringify(DefaultQuotes) }
StoredSelections == { NoItem, "Wisdom" }

(* options the user picks in the select *)
PickedOptions == {"all", "Wisdom", "Server"}

(* harness inputs *)
MergeRecords ==
    { Quote("A", "X"), Quote("A", "Y"), Quote("B", "Z"), Quote("B", "X"), Quote("C", "Z") }

-----------------------------------------------------------------------------
(* What a step did *)

Ev(op, arg, alert, updated, rendered) ==
    [op |-> op, arg |-> arg, alert |-> alert, updated |-> updated, rendered |-> rendered]

(* a step that shows nothing to the user and touches no store *)
Quiet == Ev("", <<>>, "", FALSE, FALSE)

IdlePost == [st |-> "idle", idx |-> 0, start |-> 0, sent |-> <<>>, inflight |-> 0]

ScriptOver == pc \in {"done", "aborted"}

Harness == <<mL, mS, calls>>
Network == <<fetchWait, jsonWait, post>>
Store == <<quotes, lsQuotes>>
View == <<display, ssLastViewed, categoryFilter, lsLastSelected>>

-----------------------------------------------------------------------------
(* Renderer, lines 29-46 *)

showRandomQuote(filteredQuotes) ==
    IF Len(filteredQuotes) = 0
    THEN /\ display' = EmptyHtml
         /\ ssLastViewed' = ssLastViewed
    ELSE \E randomIndex \in 0..(Len(filteredQuotes) - 1) :
            LET quote == filteredQuotes[randomIndex + 1]
            IN /\ display' = QuoteHtml(quote)
               /\ ssLastViewed' = ObjectText(quote)

(* showRandomQuote(getFilteredQuotes()) on the state the handler leaves *)
RenderFiltered == showRandomQuote(getFilteredQuotes(quotes', categoryFilter'))

-----------------------------------------------------------------------------
(* resolveConflicts(serverQuotes), lines 245-262 *)

RefreshAlways(updated) == TRUE

Refresh(updated) == updated

resolveConflicts(serverQuotes) ==
    LET r == forEachServerQuote(quotes, serverQuotes, FALSE)
    IN /\ quotes' = r.quotes
       /\ IF Refresh(r.updated)
          THEN /\ lsQuotes' = saveQuotes(quotes')
               /\ categoryFilter' = populateCategories(categoryFilter, quotes', lsLastSelected)
               /\ RenderFiltered
               /\ ev' = Ev("resolveConflicts", serverQuotes,
                           "New quotes from server have been added and conflicts resolved.",
                           r.updated, TRUE)
          ELSE /\ UNCHANGED <<lsQuotes, categoryFilter, display, ssLastViewed>>
               /\ ev' = Ev("resolveConflicts", serverQuotes, "", r.updated, FALSE)

-----------------------------------------------------------------------------
(* Top-level script, lines 13 and 273-280 *)

Init ==
    /\ lsQuotes \in StoredQuotes
    /\ quotes = LoadQuotes(lsQuotes)
    /\ lsLastSelected \in StoredSelections
    /\ ssLastViewed = NoText
    /\ display = PageHtml
    /\ categoryFilter \in PageFilters
    /\ handlers = {}
    /\ pc = "l273"
    /\ reading = FALSE
    /\ fetchWait = FALSE
    /\ jsonWait = FALSE
    /\ post = IdlePost
    /\ ev = Quiet
    /\ mL = <<>>
    /\ mS = <<>>
    /\ calls = 0

(* line 273 *)
AttachNewQuoteListener ==
    /\ pc = "l273"
    /\ handlers' = handlers \cup {"newQuote.click"}
    /\ pc' = "l275"
    /\ ev' = Quiet
    /\ UNCHANGED <<Store, View, reading, Network, Harness>>

(* line 275: getFilteredQuotes reads .value of the looked-up element, and  *)
(* throws a TypeError that ends the script when there is no such element   *)
InitialRender ==
    /\ pc = "l275"
    /\ IF categoryFilter.exists
       THEN /\ showRandomQuote(getFilteredQuotes(quotes, categoryFilter))
            /\ pc' = "l276"
            /\ ev' = Ev("showRandomQuote", <<>>, "", FALSE, TRUE)
       ELSE /\ pc' = "aborted"
            /\ ev' = Quiet
            /\ UNCHANGED <<display, ssLastViewed>>
    /\ UNCHANGED <<Store, categoryFilter, lsLastSelected, handlers, reading, Network, Harness>>

(* line 276 *)
createAddQuoteForm ==
    /\ pc = "l276"
    /\ handlers' = handlers \cup {"addButton.click"}
    /\ pc' = "l277"
    /\ ev' = Quiet
    /\ UNCHANGED <<Store, View, reading, Network, Harness>>

(* line 277: a select#categoryFilter is added to the page and the element  *)
(* the lookup returns is populated                                         *)
createCategoryFilter ==
    /\ pc = "l277"
    /\ handlers' = handlers \cup {"categoryFilter.change"}
    /\ categoryFilter' =
           populateCategories(IF categoryFilter.exists THEN categoryFilter ELSE Select(<<>>, ""),
                              quotes, lsLastSelected)
    /\ pc' = "l278"
    /\ ev' = Quiet
    /\ UNCHANGED <<Store, display, ssLastViewed, lsLastSelected, reading, Network, Harness>>

(* line 278 *)
createImportExportUI ==
    /\ pc = "l278"
    /\ handlers' = handlers \cup {"importInput.change"}
    /\ pc' = "l279"
    /\ ev' = Quiet
    /\ UNCHANGED <<Store, View, reading, Network, Harness>>

(* line 279 *)
startSyncing ==
    /\ pc = "l279"
    /\ handlers' = handlers \cup {"interval"}
    /\ pc' = "l280"
    /\ ev' = Quiet
    /\ UNCHANGED <<Store, View, reading, Network, Harness>>

(* line 280: postLocalQuotes runs up to its first await *)
postLocalQuotes ==
    /\ pc = "l280"
    /\ post' = IF Len(quotes) = 0
               THEN [IdlePost EXCEPT !.st = "done"]
               ELSE [st |-> "await", idx |-> 1, start |-> Len(quotes),
                     sent |-> << quotes[1] >>, inflight |-> 1]
    /\ pc' = "done"
    /\ ev' = Quiet
    /\ UNCHANGED <<Store, View, handlers, reading, fetchWait, jsonWait, Harness>>

-----------------------------------------------------------------------------
(* Event handlers; an event is dispatched only when no script is running *)

(* line 273: click on #newQuote; without the select the handler throws *)
NewQuoteClick ==
    /\ ScriptOver
    /\ "newQuote.click" \in handlers
    /\ IF categoryFilter.exists
       THEN /\ showRandomQuote(getFilteredQuotes(quotes, categoryFilter))
            /\ ev' = Ev("showRandomQuote", <<>>, "", FALSE, TRUE)
       ELSE /\ ev' = Quiet
            /\ UNCHANGED <<display, ssLastViewed>>
    /\ UNCHANGED <<Store, categoryFilter, lsLastSelected, handlers, pc, reading,
                   Network, Harness>>

(* lines 77-94 *)
addQuote(typedText, typedCategory) ==
    LET newQuoteText == Trim(typedText)
        newQuoteCategory == Trim(typedCategory)
    IN /\ ScriptOver
       /\ "addButton.click" \in handlers
       /\ IF newQuoteText = "" \/ newQuoteCategory = ""
          THEN /\ ev' = Ev("addQuote", <<>>, "Please enter both a quote and a category!",
                           FALSE, FALSE)
               /\ UNCHANGED <<Store, display, ssLastViewed, categoryFilter>>
          ELSE /\ Len(quotes) < MaxQuotes
               /\ quotes' = Push(quotes, << Quote(newQuoteText, newQuoteCategory) >>)
               /\ lsQuotes' = saveQuotes(quotes')
               /\ categoryFilter' = populateCategories(categoryFilter, quotes', lsLastSelected)
               /\ RenderFiltered
               /\ ev' = Ev("addQuote", <<>>, "", FALSE, TRUE)
       /\ UNCHANGED <<lsLastSelected, handlers, pc, reading, Network, Harness>>

(* lines 145-149: the user picks an option of the select the lookup        *)
(* returns, and its change event reaches filterQuotes                      *)
filterQuotes(picked) ==
    /\ ScriptOver
    /\ "categoryFilter.change" \in handlers
    /\ categoryFilter.exists
    /\ picked \in Range(categoryFilter.options)
    /\ categoryFilter' = [categoryFilter EXCEPT !.value = picked]
    /\ lsLastSelected' = categoryFilter'.value
    /\ showRandomQuote(getFilteredQuotes(quotes, categoryFilter'))
    /\ ev' = Ev("filterQuotes", <<>>, "", FALSE, TRUE)
    /\ UNCHANGED <<Store, handlers, pc, reading, Network, Harness>>

(* lines 187-188, 205: readAsText starts; onload fires later *)
importFromJsonFile ==
    /\ ScriptOver
    /\ "importInput.change" \in handlers
    /\ reading' = TRUE
    /\ ev' = Quiet
    /\ UNCHANGED <<Store, View, handlers, pc, Network, Harness>>

(* lines 189-204: fileReader.onload with the file's text in e.target.result *)
onload(file, more) ==
    /\ ScriptOver
    /\ reading
    /\ reading' = more
    /\ IF ParseThrows(file)
       THEN /\ ev' = Ev("onload", <<file>>, "Error parsing JSON file.", FALSE, FALSE)
            /\ UNCHANGED <<Store, display, ssLastViewed, categoryFilter>>
       ELSE IF IsArray(file)
       THEN LET importedQuotes == JSONparse(file)
            IN /\ Len(quotes) + Len(importedQuotes) <= MaxQuotes
               /\ quotes' = Push(quotes, importedQuotes)
               /\ lsQuotes' = saveQuotes(quotes')
               /\ categoryFilter' = populateCategories(categoryFilter, quotes', lsLastSelected)
               /\ RenderFiltered
               /\ ev' = Ev("onload", <<file>>, "Quotes imported successfully!", FALSE, TRUE)
       ELSE /\ ev' = Ev("onload", <<file>>, "Invalid JSON file format.", FALSE, FALSE)
            /\ UNCHANGED <<Store, display, ssLastViewed, categoryFilter>>
    /\ UNCHANGED <<lsLastSelected, handlers, pc, Network, Harness>>

-----------------------------------------------------------------------------
(* Server sync, lines 213-227 and 264-267 *)

(* the interval fires: fetchServerQuotes runs up to `await fetch` *)
fetchServerQuotes ==
    /\ ScriptOver
    /\ "interval" \in handlers
    /\ fetchWait' = TRUE
    /\ ev' = Quiet
    /\ UNCHANGED <<Store, View, handlers, pc, reading, jsonWait, post, Harness>>

(* `await fetch` settles: on to `await response.json()`, or into the catch *)
fetchSettled(ok, more) ==
    /\ ScriptOver
    /\ fetchWait
    /\ fetchWait' = more
    /\ jsonWait' = (jsonWait \/ ok)
    /\ ev' = Quiet
    /\ UNCHANGED <<Store, View, handlers, pc, reading, post, Harness>>

(* `await response.json()` rejects: into the catch *)
jsonRejected(more) ==
    /\ ScriptOver
    /\ jsonWait
    /\ jsonWait' = more
    /\ ev' = Quiet
    /\ UNCHANGED <<Store, View, handlers, pc, reading, fetchWait, post, Harness>>

(* `await response.json()` resolves with data: lines 218-223; data without *)
(* a slice method throws into the catch                                    *)
jsonResolved(data, more) ==
    /\ ScriptOver
    /\ jsonWait
    /\ jsonWait' = more
    /\ IF data.isArray
       THEN /\ Len(forEachServerQuote(quotes, ServerQuotes(data.items), FALSE).quotes)
                  <= MaxQuotes
            /\ resolveConflicts(ServerQuotes(data.items))
       ELSE /\ ev' = Quiet
            /\ UNCHANGED <<Store, display, ssLastViewed, categoryFilter>>
    /\ UNCHANGED <<lsLastSelected, handlers, pc, reading, fetchWait, post, Harness>>

-----------------------------------------------------------------------------
(* postLocalQuotes, lines 230-242: the awaited POST settles.  The for-of   *)
(* iterator reads quotes.length at every step; a rejection leaves the loop *)
(* for the catch around it                                                 *)

postSettled(ok) ==
    /\ ScriptOver
    /\ post.st = "await"
    /\ IF ok /\ post.idx < Len(quotes)
       THEN post' = [post EXCEPT !.idx = post.idx + 1,
                                 !.sent = Append(post.sent, quotes[post.idx + 1])]
       ELSE post' = [post EXCEPT !.st = "done", !.inflight = 0]
    /\ ev' = Quiet
    /\ UNCHANGED <<Store, View, handlers, pc, reading, fetchWait, jsonWait, Harness>>

-----------------------------------------------------------------------------

Next ==
    \/ AttachNewQuoteListener
    \/ InitialRender
    \/ createAddQuoteForm
    \/ createCategoryFilter
    \/ createImportExportUI
    \/ startSyncing
    \/ postLocalQuotes
    \/ NewQuoteClick
    \/ \E t \in TypedTexts, c \in TypedCategories : addQuote(t, c)
    \/ \E picked \in PickedOptions : filterQuotes(picked)
    \/ importFromJsonFile
    \/ \E file \in ImportFiles, more \in BOOLEAN : onload(file, more)
    \/ fetchServerQuotes
    \/ \E ok, more \in BOOLEAN : fetchSettled(ok, more)
    \/ \E more \in BOOLEAN : jsonRejected(more)
    \/ \E data \in ServerBodies, more \in BOOLEAN : jsonResolved(data, more)
    \/ \E ok \in BOOLEAN : postSettled(ok)

Spec == Init /\ [][Next]_vars

-----------------------------------------------------------------------------
(* Direct calls of resolveConflicts: the store is loaded with a local       *)
(* sequence mL and resolveConflicts(mS) is called MaxCalls times in a row   *)

InitMerge ==
    /\ mL \in SeqsUpTo(MergeRecords, MaxLocal)
    /\ mS \in SeqsUpTo(MergeRecords, MaxCand)
    /\ calls = 0
    /\ lsQuotes = JSONstringify(mL)
    /\ quotes = LoadQuotes(lsQuotes)
    /\ lsLastSelected = NoItem
    /\ categoryFilter = populateCategories(Select(<<>>, ""), quotes, lsLastSelected)
    /\ display = IF quotes = <<>> THEN EmptyHtml ELSE QuoteHtml(quotes[1])
    /\ ssLastViewed = IF quotes = <<>> THEN NoText ELSE ObjectText(quotes[1])
    /\ handlers = {"newQuote.click", "addButton.click", "categoryFilter.change",
                   "importInput.change", "interval"}
    /\ pc = "done"
    /\ reading = FALSE
    /\ fetchWait = FALSE
    /\ jsonWait = FALSE
    /\ post = [IdlePost EXCEPT !.st = "done"]
    /\ ev = Quiet

MergeCall ==
    /\ calls < MaxCalls
    /\ calls' = calls + 1
    /\ resolveConflicts(mS)
    /\ UNCHANGED <<mL, mS, lsLastSelected, handlers, pc, reading, Network>>

NextMerge == MergeCall

SpecMerge == InitMerge /\ [][NextMerge]_vars

-----------------------------------------------------------------------------
(* Properties *)

Texts(q) == { q[i].text : i \in DOMAIN q }

(* the candidates of S that are new to L: text in no record of L and in no *)
(* earlier candidate of S, kept in S's order                               *)
NewIndices(L, S) ==
    { i \in DOMAIN S : S[i].text \notin Texts(L) /\ \A j \in 1..(i - 1) : S[j].text # S[i].text }
NewCandidates(L, S) ==
    LET K == NewIndices(L, S)
    IN [k \in 1..Cardinality(K) |->
           S[CHOOSE i \in K : Cardinality({ j \in K : j < i }) = k - 1]]

C2_MergeIdempotent ==
    [][(calls >= 1 /\ calls' = calls + 1) =>
          (quotes' = quotes /\ ~ev'.updated /\ ev'.alert = "")]_vars

(* C2 witness: the second call is done, the first one had appended, and S   *)
(* repeats a text                                                           *)
C2_SecondCallDone ==
    /\ calls = 2
    /\ Len(quotes) > Len(mL)
    /\ \E i, j \in DOMAIN mS : i < j /\ mS[i].text = mS[j].text /\ mS[i].text \notin Texts(mL)
    /\ ~ev.updated

C4_StoreMirrored ==
    IF lsQuotes = NoText
    THEN quotes = DefaultQuotes
    ELSE lsQuotes.kind = "array" /\ JSONparse(lsQuotes) = quotes

(* C4 witness: a valid addQuote has run and the item holds the new record   *)
C4_SavedAfterAdd ==
    /\ ev.op = "addQuote"
    /\ ev.rendered
    /\ Len(quotes) > Len(DefaultQuotes)
    /\ lsQuotes.elems[Len(quotes)] = << <<"text", "A">>, <<"category", "X">> >>

(* C5: onload of a file whose text does not parse or whose top-level value  *)
(* is not an array alerts an error and leaves the quote sequence, the       *)
(* persisted item, the select and the display as they were.                 *)
C5_BadImportRejected ==
    [][(ev'.op = "onload" /\ ev'.arg[1].kind # "array") =>
          /\ ev'.alert \in {"Invalid JSON file format.", "Error parsing JSON file."}
          /\ UNCHANGED <<quotes, lsQuotes, categoryFilter, display, ssLastViewed>>]_vars

(* C5 witness: a file holding one object was read and refused *)
C5_ObjectRefused ==
    /\ ev.op = "onload"
    /\ ev.arg = << ObjectText(Quote("A", "X")) >>
    /\ ev.alert = "Invalid JSON file format."

MatchesSelection(q, sel) == sel.value = "all" \/ q.category = sel.value
C7_RenderedFromSubset ==
    [][ev'.rendered =>
          IF \A i \in DOMAIN quotes' : ~MatchesSelection(quotes'[i], categoryFilter')
          THEN display' = EmptyHtml /\ ssLastViewed' = ssLastViewed
          ELSE \E i \in DOMAIN quotes' :
                  /\ MatchesSelection(quotes'[i], categoryFilter')
                  /\ display' = QuoteHtml(quotes'[i])
                  /\ ssLastViewed' = ObjectText(quotes'[i])]_vars

(* C7 witness: the renderer ran with no record in the selected category *)
C7_EmptyState ==
    /\ ev.rendered
    /\ display = EmptyHtml
    /\ ssLastViewed = NoText

(* C8: when postLocalQuotes has finished, one POST was issued for every     *)
(* record the sequence held when it started, in sequence order.             *)
C8_PostsEveryRecord ==
    post.st = "done" => IsPrefix(SubSeq(quotes, 1, post.start), post.sent)

(* C9: under every interleaving of overlapping sync runs with addQuote,     *)
(* import and postLocalQuotes, a merge step keeps every record already in   *)
(* the sequence and appends no record whose text occurs before it in the    *)
(* sequence, so a server text is added at most once.                        *)
C9_MergeAtomic ==
    [][ev'.op = "resolveConflicts" =>
          /\ IsPrefix(quotes, quotes')
          /\ \A i \in (Len(quotes) + 1)..Len(quotes') :
                \A j \in 1..(i - 1) : quotes'[j].text # quotes'[i].text]_vars

(* C9 witness: a run appended a server record while another run, started   *)
(* before this merge, was still waiting for its response                    *)
C9_Overlap ==
    /\ ev.op = "resolveConflicts"
    /\ ev.updated
    /\ jsonWait
    /\ quotes[Len(quotes)].category = "Server"

(* C10: on a page without a categoryFilter element the top-level script is  *)
(* never ended by reading the selected category before the element exists.  *)
C10_InitCompletes == ~(pc = "aborted" /\ ~categoryFilter.exists)

====
